---- MODULE Spec2Model ----
(***************************************************************************)
(* Model of generate.js: the Arduino library registry generator.           *)
(*                                                                         *)
(* JavaScript strings are sequences of one-character strings; a value that *)
(* may be undefined or null is a sequence of length at most one (<<>> is   *)
(* the absent value, <<v>> the present value v); a string that may be      *)
(* absent is <<>> when absent (the code only ever tests such strings for   *)
(* truthiness, and the empty string is falsy like null and undefined).     *)
(***************************************************************************)
EXTENDS Integers, Sequences, FiniteSets

\* ------------------------------------------------------------ configuration

MAX_RETRIES == 3

CONCURRENT_REQUESTS == 5

\* Seconds waited on a rate limit that carries no x-ratelimit-reset header.
DefaultWaitSec == 60

\* Seconds added to the time left until the rate limit resets.
ResetMarginSec == 1

\* withRetry's backoff: base and cap, in milliseconds.
BackoffBaseMs == 1000

BackoffCapMs == 10000

\* const FETCH_TIMEOUT_MS = 30000
FETCH_TIMEOUT_MS == 30000

\* ------------------------------------------------------------------ bounds

\* Largest stargazers_count the metadata API answers with.
MaxStars == 1

\* Ticks of the clock in one second.
TicksPerSec == 2

\* Largest clock value, in ticks, of the timed specification.
MaxTime == 122

\* Largest x-ratelimit-reset value, in epoch seconds, the API answers with.
MaxReset == 3

\* Longest list of raw index entries grouped in SpecGroup.
MaxEntries == 3

\* Largest maxRetries argument given to withRetry in SpecRetry.
MaxRetriesArg == 5

\* ------------------------------------------------------------ value helpers

Undefined == <<>>

Some(v) == <<v>>

IsSome(o) == o # <<>>

Min(S) == CHOOSE x \in S : \A y \in S : x <= y

Max(S) == CHOOSE x \in S : \A y \in S : x >= y

Sign(n) == IF n < 0 THEN -1 ELSE IF n > 0 THEN 1 ELSE 0

RECURSIVE Pow2(_)
Pow2(n) == IF n <= 0 THEN 1 ELSE 2 * Pow2(n - 1)

LowerCase == <<"a","b","c","d","e","f","g","h","i","j","k","l","m","n","o","p","q","r","s","t","u","v","w","x","y","z">>

UpperCase == <<"A","B","C","D","E","F","G","H","I","J","K","L","M","N","O","P","Q","R","S","T","U","V","W","X","Y","Z">>

Digits == <<"0","1","2","3","4","5","6","7","8","9">>

Range(s) == {s[i] : i \in 1..Len(s)}

IndexOf(c, s) == CHOOSE i \in 1..Len(s) : s[i] = c

\* The regular expression class \d.
DigitChars == Range(Digits)

IsDigit(c) == c \in DigitChars

\* The regular expression class [\w.-].
RepoChars == Range(LowerCase) \cup Range(UpperCase) \cup Range(Digits) \cup {"_", ".", "-"}

IsRepoChar(c) == c \in RepoChars

\* Length of the longest run of characters satisfying the class, from position p.
RepoRun(s, p) == LET stops == {i \in p..Len(s) : ~IsRepoChar(s[i])}
                 IN  (IF stops = {} THEN Len(s) + 1 ELSE Min(stops)) - p

DigitRun(s, p) == LET stops == {i \in p..Len(s) : ~IsDigit(s[i])}
                  IN  (IF stops = {} THEN Len(s) + 1 ELSE Min(stops)) - p

StartsWithAt(s, p, w) == /\ p + Len(w) - 1 <= Len(s)
                         /\ \A i \in 1..Len(w) : s[p + i - 1] = w[i]

EndsWith(s, w) == Len(s) >= Len(w) /\ StartsWithAt(s, Len(s) - Len(w) + 1, w)

\* ----------------------------------------------------------- parseGitHubUrl

GitHubHost == <<"g","i","t","h","u","b",".","c","o","m">>

DotGit == <<".","g","i","t">>

\* Whether /github\.com[/:]([\w.-]+)\/([\w.-]+)/ matches starting at position p.
UrlMatchAt(s, p) ==
    /\ StartsWithAt(s, p, GitHubHost)
    /\ p + 10 <= Len(s)
    /\ s[p + 10] \in {"/", ":"}
    /\ LET o == RepoRun(s, p + 11)
       IN  /\ o >= 1
           /\ p + 11 + o <= Len(s)
           /\ s[p + 11 + o] = "/"
           /\ RepoRun(s, p + 12 + o) >= 1

\* match[2].replace(/\.git$/, '')
StripDotGit(r) == IF EndsWith(r, DotGit) THEN SubSeq(r, 1, Len(r) - 4) ELSE r

\* The RepoIdentity of a URL string, or Undefined (null).
parseGitHubUrl(url) ==
    IF url = <<>> THEN Undefined
    ELSE LET ps == {p \in 1..Len(url) : UrlMatchAt(url, p)}
         IN  IF ps = {} THEN Undefined
             ELSE LET p == Min(ps)
                      o == RepoRun(url, p + 11)
                      r == RepoRun(url, p + 12 + o)
                  IN  Some([owner |-> SubSeq(url, p + 11, p + 10 + o),
                            repo  |-> StripDotGit(SubSeq(url, p + 12 + o, p + 11 + o + r))])

\* ------------------------------------------------------------ compareSemver

RECURSIVE parseInt(_)
parseInt(ds) == IF ds = <<>> THEN 0
                ELSE 10 * parseInt(SubSeq(ds, 1, Len(ds) - 1)) + (IndexOf(ds[Len(ds)], Digits) - 1)

\* Whether (?:\.(\d+)) matches at position p, and the digits it captures.
DotNumAt(v, p) == p + 1 <= Len(v) /\ v[p] = "." /\ DigitRun(v, p + 1) >= 1

parseVersionMajorOnly(v) ==
    LET a == DigitRun(v, 1)
    IN  IF a = 0 THEN <<0, 0, 0>> ELSE <<parseInt(SubSeq(v, 1, a)), 0, 0>>

\* parseVersion: the triple of /^(\d+)(?:\.(\d+))?(?:\.(\d+))?/, [0, 0, 0] on no match.
parseVersion(v) ==
    LET a == DigitRun(v, 1)
    IN  IF a = 0 THEN <<0, 0, 0>>
        ELSE LET hasB == DotNumAt(v, a + 1)
                 b    == IF hasB THEN DigitRun(v, a + 2) ELSE 0
                 pc3  == IF hasB THEN a + 2 + b ELSE a + 1
                 hasC == hasB /\ DotNumAt(v, pc3)
                 c    == IF hasC THEN DigitRun(v, pc3 + 1) ELSE 0
             IN  << parseInt(SubSeq(v, 1, a)),
                    IF hasB THEN parseInt(SubSeq(v, a + 2, a + 1 + b)) ELSE 0,
                    IF hasC THEN parseInt(SubSeq(v, pc3 + 1, pc3 + c)) ELSE 0 >>

compareSemver(a, b) ==
    LET pa == parseVersion(a)
        pb == parseVersion(b)
    IN  IF pa[1] # pb[1] THEN pb[1] - pa[1]
        ELSE IF pa[2] # pb[2] THEN pb[2] - pa[2]
        ELSE pb[3] - pa[3]

\* --------------------------------------------------------------- sorting

\* Three-way lexicographic comparison of two sequences of integers.
LexCompare(a, b) ==
    LET n == IF Len(a) < Len(b) THEN Len(a) ELSE Len(b)
        d == {i \in 1..n : a[i] # b[i]}
    IN  IF d = {} THEN Sign(Len(a) - Len(b))
        ELSE IF a[Min(d)] < b[Min(d)] THEN -1 ELSE 1

IsUpper(c) == c \in Range(UpperCase)

\* UTF-16 code unit of an ASCII letter.
CodeUnit(c) == IF IsUpper(c) THEN 64 + IndexOf(c, UpperCase) ELSE 96 + IndexOf(c, LowerCase)

\* Collation weights of an ASCII letter: the letter whatever its case, then
\* the case, lower case first.
PrimaryWeight(c) == IF IsUpper(c) THEN IndexOf(c, UpperCase) ELSE IndexOf(c, LowerCase)

TertiaryWeight(c) == IF IsUpper(c) THEN 1 ELSE 0

\* String.prototype.localeCompare on strings of ASCII letters: all primary
\* weights are compared before any case difference counts.
localeCompare(a, b) ==
    LET p == LexCompare([i \in 1..Len(a) |-> PrimaryWeight(a[i])],
                        [i \in 1..Len(b) |-> PrimaryWeight(b[i])])
    IN  IF p # 0 THEN p
        ELSE LexCompare([i \in 1..Len(a) |-> TertiaryWeight(a[i])],
                        [i \in 1..Len(b) |-> TertiaryWeight(b[i])])

\* Array.prototype.sort: stable, so with a comparator that is a total
\* preorder element i lands after every element that compares lower and
\* after every earlier element that compares equal. calls[i][j] is what the
\* comparator returns for (s[i], s[j]).
StableSort(s, calls) ==
    LET rank(i) == 1 + Cardinality({j \in 1..Len(s) :
                        \/ calls[j][i] < 0
                        \/ (calls[j][i] = 0 /\ j < i)})
    IN  [k \in 1..Len(s) |-> s[CHOOSE i \in 1..Len(s) : rank(i) = k]]

\* ------------------------------------------------------------ index payloads

Https == <<"h","t","t","p","s",":","/","/">>

GitAt == <<"g","i","t","@">>

\* https://github.com/<owner>/<repo>
RepositoryUrl(owner, repo) == Https \o GitHubHost \o <<"/">> \o owner \o <<"/">> \o repo

Version(a, b, c) == <<a, ".", b, ".", c>>

RawEntry(name, author, website, repository, version, checksum) ==
    [name |-> name, author |-> author, website |-> website,
     repository |-> repository, version |-> version, checksum |-> checksum]

\* Two versions of Foo whose website resolves to w/foo and whose repository
\* URL resolves to a/foo, Bar whose URLs are not GitHub URLs, and an entry
\* without a name.
IndexScenario ==
    << RawEntry(<<"F","o","o">>, <<"x">>, RepositoryUrl(<<"w">>, <<"f","o","o">>),
                GitAt \o GitHubHost \o <<":","a","/","f","o","o">> \o DotGit,
                Version("1","0","0"), 1),
       RawEntry(<<>>, <<"n">>, RepositoryUrl(<<"n">>, <<"n">>), <<>>, Version("1","0","0"), 2),
       RawEntry(<<"F","o","o">>, <<"y">>, RepositoryUrl(<<"b">>, <<"f","o","o">>), <<>>,
                Version("2","1","3"), 3),
       RawEntry(<<"B","a","r">>, <<"z">>, Https \o <<"b","a","r",".","i","o","/","b","/","c">>,
                Https \o <<"g","i","t","l","a","b",".","c","o","m","/","b","/","c">>,
                Version("1","0","0"), 4) >>

\* Four packages with a GitHub URL, in several of its shapes, and names that
\* differ in case.
IndexFour ==
    << RawEntry(<<"a">>, <<"p">>, RepositoryUrl(<<"o">>, <<"a">>), <<>>, Version("1","0","0"), 1),
       RawEntry(<<"B">>, <<"p">>, RepositoryUrl(<<"o">>, <<"B">>) \o DotGit, <<>>, Version("1","0","0"), 2),
       RawEntry(<<"A">>, <<"p">>, <<>>, GitAt \o GitHubHost \o <<":","o","/","A">> \o DotGit,
                Version("1","0","0"), 3),
       RawEntry(<<"a","b">>, <<"p">>, Https \o <<"a","b",".","i","o">>,
                RepositoryUrl(<<"o">>, <<"a","b">>) \o <<"/","w","i","k","i">>, Version("1","0","0"), 4) >>

\* IndexFour and a package without a GitHub URL.
IndexFive ==
    IndexFour \o
    << RawEntry(<<"Z","e","d">>, <<"q">>, Https \o <<"z","e","d",".","i","o">>, <<>>, Version("1","0","0"), 5) >>

\* Six packages, each with a GitHub URL: more than one batch.
IndexSix ==
    IndexFour \o
    << RawEntry(<<"b">>,     <<"p">>, RepositoryUrl(<<"o">>, <<"b">>), <<>>, Version("1","0","0"), 5),
       RawEntry(<<"A","b">>, <<"p">>, RepositoryUrl(<<"o">>, <<"A","b">>), <<>>, Version("1","0","0"), 6) >>

\* One package, and two, with a GitHub URL.
IndexOne == SubSeq(IndexFour, 1, 1)

IndexTwo == SubSeq(IndexFour, 1, 2)

\* The entries SpecGroup builds raw lists from: with and without a name, and
\* per version string other descriptive fields and URLs (a website only, a
\* repository only, neither, both).
GroupEntries ==
    {RawEntry(n, v.author, v.website, v.repository, v.version, v.checksum) :
        n \in {<<>>, <<"a">>, <<"b">>},
        v \in { [author |-> <<"x">>, website |-> RepositoryUrl(<<"o">>, <<"r">>), repository |-> <<>>,
                 version |-> Version("1","0","0"), checksum |-> 1],
                [author |-> <<"y">>, website |-> <<>>,
                 repository |-> GitAt \o GitHubHost \o <<":","p","/","q">> \o DotGit,
                 version |-> <<"1">>, checksum |-> 2],
                [author |-> <<"x">>, website |-> <<>>, repository |-> <<>>,
                 version |-> <<"2",".","0">>, checksum |-> 3],
                [author |-> <<"y">>, website |-> RepositoryUrl(<<"o">>, <<"r">>) \o DotGit,
                 repository |-> RepositoryUrl(<<"p">>, <<"q">>),
                 version |-> <<"x">>, checksum |-> 4] }}

\* Every list of at most MaxEntries of them.
RawLists == UNION {[1..n -> GroupEntries] : n \in 0..MaxEntries}

\* The decimal digits of a version component.
NumStr(n) == IF n >= 10 THEN <<Digits[(n \div 10) + 1], Digits[(n % 10) + 1]>> ELSE <<Digits[n + 1]>>

\* Version strings with the triple each one stands for: major, major.minor
\* and major.minor.patch, bare or followed by a suffix; strings with a
\* leading zero, an empty component or a letter where a component should
\* be; strings that do not start with a digit.
VersionCases ==
    {[s |-> NumStr(a) \o x, t |-> <<a, 0, 0>>] : a \in {0, 1, 2, 10}, x \in {<<>>, <<"-","x">>}}
        \cup {[s |-> NumStr(a) \o <<".">> \o NumStr(b) \o x, t |-> <<a, b, 0>>] :
                  a \in {0, 1, 10}, b \in {0, 2}, x \in {<<>>, <<"-","x">>}}
        \cup {[s |-> NumStr(a) \o <<".">> \o NumStr(b) \o <<".">> \o NumStr(c) \o x, t |-> <<a, b, c>>] :
                  a \in {0, 1}, b \in {0, 2}, c \in {0, 1, 10}, x \in {<<>>, <<".","4">>}}
        \cup {[s |-> <<"0","1",".","0","2">>, t |-> <<1, 2, 0>>],
               [s |-> <<"1",".">>, t |-> <<1, 0, 0>>],
               [s |-> <<"1",".",".","2">>, t |-> <<1, 0, 0>>],
               [s |-> <<"1",".","2",".">>, t |-> <<1, 2, 0>>],
               [s |-> <<"1",".","x",".","2">>, t |-> <<1, 0, 0>>],
               [s |-> <<"1",".","2",".","x">>, t |-> <<1, 2, 0>>],
               [s |-> <<>>, t |-> <<0, 0, 0>>],
               [s |-> <<"x">>, t |-> <<0, 0, 0>>],
               [s |-> <<"v","1",".","2">>, t |-> <<0, 0, 0>>],
               [s |-> <<".","1">>, t |-> <<0, 0, 0>>]}

\* Two entries of one name for every pair of version strings.
SemverLists ==
    {<< RawEntry(<<"a">>, <<"x">>, <<>>, <<>>, ca.s, 1),
        RawEntry(<<"a">>, <<"x">>, <<>>, <<>>, cb.s, 2) >> : ca, cb \in VersionCases}

\* URL strings with the repository each one names (Undefined for none):
\* the supported shapes of github.com repositories, bare and with trailing
\* path segments, and URLs that name no github.com repository.
UrlCases ==
    {[url |-> shape[1] \o GitHubHost \o shape[2] \o o \o <<"/">> \o r \o shape[3] \o rest,
      id  |-> Some([owner |-> o, repo |-> r])] :
         shape \in {<<Https, <<"/">>, <<>>>>, <<Https, <<"/">>, DotGit>>, <<GitAt, <<":">>, DotGit>>},
         o \in {<<"o">>, <<"a","-","b">>},
         r \in {<<"r">>, <<"x",".","y">>, <<"r","_","1">>},
         rest \in {<<>>, <<"/">>, <<"/","t","r","e","e","/","m","a","i","n">>, <<"#","r","e","a","d","m","e">>}}
        \cup {[url |-> u, id |-> Undefined] :
                  u \in {<<>>,
                         Https \o <<"e","x","a","m","p","l","e",".","c","o","m">>,
                         Https \o <<"g","i","t","l","a","b",".","c","o","m","/","o","/","r">>,
                         Https \o <<"g","i","t","h","u","b",".","i","o","/","o","/","r">>,
                         Https \o <<"n","o","t">> \o GitHubHost \o <<"/","o","/","r">>,
                         <<"o","/","r">>}}

\* One entry for every URL string, as its website or as its repository.
UrlLists ==
    {<< RawEntry(<<"a">>, <<"x">>, c.url, <<>>, Version("1", "0", "0"), 1) >> : c \in UrlCases}
        \cup {<< RawEntry(<<"a">>, <<"x">>, <<>>, c.url, Version("1", "0", "0"), 1) >> : c \in UrlCases}

IndexPayload(libraries) == [isNull |-> FALSE, libraries |-> Some(libraries)]

\* The parsed body of the index response: null, or an object with or without
\* a libraries array.
IndexPayloads ==
    { [isNull |-> TRUE,  libraries |-> Undefined],
      [isNull |-> FALSE, libraries |-> Undefined],
      IndexPayload(<<>>),
      IndexPayload(IndexScenario),
      IndexPayload(IndexFive) }

\* Why one invocation of the index fetch fails: the transport, the timeout,
\* a non-success status, an unparseable body.
IndexErrorKinds == {"network", "timeout", "status", "json"}

\* -------------------------------------------------------------------- state

VARIABLES
    pc,          \* where generateRegistry stands
    maxRetries,  \* withRetry's maxRetries argument
    attempt,     \* withRetry's loop counter
    lastError,   \* withRetry's lastError: <<>> or <<[kind, at]>>, at = the invocation that threw it
    fnCalls,     \* how many times withRetry has invoked fn
    delay,       \* the backoff delays withRetry has slept or is sleeping, in ms, oldest first
    indexData,   \* <<>> until the index fetch resolves, then <<payload>>
    libs,        \* uniqueLibraries: the Package objects, in Map insertion order
    lk,          \* per Package, the state of its processor call and metadata lookup
    batchStart,  \* processInBatches' loop variable i
    results,     \* processInBatches' results: references (positions in libs)
    output,      \* <<>>, or <<the object handed to JSON.stringify>>
    file,        \* the registry file: the outputs written to it, oldest first
    thrown,      \* the error generateRegistry rejected with: <<>> or <<error>>
    exitCode,    \* <<>> while the process runs, then <<code>>
    now,         \* the clock, in ticks
    timer,       \* per Package, the rate-limit sleep of its lookup
    trace,       \* per Package, the responses its lookup has received, oldest first
    call         \* per Package, the fetchWithTimeout call and body read of its lookup

vars == <<pc, maxRetries, attempt, lastError, fnCalls, delay, indexData, libs, lk,
          batchStart, results, output, file, thrown, exitCode, now, timer, trace, call>>

retryVars == <<maxRetries, attempt, lastError, fnCalls, delay>>

batchVars == <<libs, lk, batchStart, results>>

\* What SpecTimed, SpecTrace and SpecFetch record about the lookups.
auxVars == <<now, timer, trace, call>>

NoTimer == [sleptAt |-> 0, reset |-> Undefined, waitMs |-> 0]

\* No request of the lookup is pending.
NoCall == [phase |-> "none", startedAt |-> 0]

InitWith(m) ==
    /\ pc = "fetchIndex"
    /\ maxRetries = m
    /\ attempt = 1
    /\ lastError = Undefined
    /\ fnCalls = 1
    /\ delay = <<>>
    /\ indexData = Undefined
    /\ libs = <<>>
    /\ lk = <<>>
    /\ batchStart = 0
    /\ results = <<>>
    /\ output = Undefined
    /\ file = <<>>
    /\ thrown = Undefined
    /\ exitCode = Undefined
    /\ now = 0
    /\ timer = <<>>
    /\ trace = <<>>
    /\ call = <<>>

\* generateRegistry has called withRetry(fn, MAX_RETRIES), which has invoked
\* fn for the first time: the index request is in flight.
Init == InitWith(MAX_RETRIES)

\* ---------------------------------------------------------------- withRetry

BackoffDelayUnclamped(a) == BackoffBaseMs * Pow2(a)

\* Math.min(1000 * Math.pow(2, attempt), 10000)
BackoffDelay(a) ==
    IF BackoffBaseMs * Pow2(a) < BackoffCapMs THEN BackoffBaseMs * Pow2(a) ELSE BackoffCapMs

KeepFirstError(last, error) == IF IsSome(last) THEN last ELSE Some(error)

\* catch (error) { lastError = error; ... }
CaughtError(last, error) == Some(error)

\* if (attempt < maxRetries): whether the catch block sleeps before the loop goes on.
SleepsAfter(a, m) == a < m

\* attempt <= maxRetries: whether the loop runs its body for attempt a.
LoopContinues(a, m) == a <= m

\* The for loop's step after a failed attempt: attempt++, then either invoke
\* fn again or leave the loop and throw lastError. The rejection of
\* generateRegistry reaches the top-level catch, which exits with code 1.
LoopStep ==
    /\ attempt' = attempt + 1
    /\ IF LoopContinues(attempt + 1, maxRetries)
       THEN /\ fnCalls' = fnCalls + 1
            /\ pc' = "fetchIndex"
            /\ UNCHANGED <<thrown, exitCode>>
       ELSE /\ thrown' = lastError'
            /\ exitCode' = Some(1)
            /\ pc' = "fatal"
            /\ UNCHANGED fnCalls

\* fn throws in invocation number fnCalls.
AttemptFail(kind) ==
    /\ pc = "fetchIndex"
    /\ lastError' = CaughtError(lastError, [kind |-> kind, at |-> fnCalls])
    /\ IF SleepsAfter(attempt, maxRetries)
       THEN /\ delay' = Append(delay, BackoffDelay(attempt))
            /\ pc' = "retrySleep"
            /\ UNCHANGED <<attempt, fnCalls, thrown, exitCode>>
       ELSE /\ LoopStep
            /\ UNCHANGED delay
    /\ UNCHANGED <<maxRetries, indexData, output, file>>
    /\ UNCHANGED batchVars
    /\ UNCHANGED auxVars

\* The backoff timer fires and the loop goes on.
RetryWake ==
    /\ pc = "retrySleep"
    /\ UNCHANGED <<maxRetries, lastError, delay, indexData, output, file>>
    /\ LoopStep
    /\ UNCHANGED batchVars
    /\ UNCHANGED auxVars

\* generateRegistry resumes after its await of withRetry: the locals of the
\* call that returned are gone.
ReturnedFromRetry ==
    /\ attempt' = 0
    /\ lastError' = Undefined
    /\ fnCalls' = 0
    /\ delay' = <<>>
    /\ UNCHANGED maxRetries

\* fn returns the parsed body: withRetry returns it at once.
AttemptSucceed(payload) ==
    /\ pc = "fetchIndex"
    /\ indexData' = Some(payload)
    /\ pc' = "validate"
    /\ UNCHANGED <<output, file, thrown, exitCode>>
    /\ UNCHANGED retryVars
    /\ UNCHANGED batchVars
    /\ UNCHANGED auxVars

\* ------------------------------------------------- validation and grouping

InvalidIndexWhenEmpty(payload) ==
    payload.isNull \/ ~IsSome(payload.libraries) \/ payload.libraries = Some(<<>>)

\* !indexData || !Array.isArray(indexData.libraries)
InvalidIndex(payload) == payload.isNull \/ ~IsSome(payload.libraries)

\* The index is invalid: generateRegistry throws, the process exits with 1.
ValidateFail ==
    /\ pc = "validate"
    /\ InvalidIndex(indexData[1])
    /\ thrown' = Some([kind |-> "format", at |-> 0])
    /\ exitCode' = Some(1)
    /\ pc' = "fatal"
    /\ ReturnedFromRetry
    /\ UNCHANGED <<indexData, output, file>>
    /\ UNCHANGED batchVars
    /\ UNCHANGED auxVars

VersionInfo(lib) == [version |-> lib.version, checksum |-> lib.checksum]

NewPackageRawRepository(lib) ==
    LET repoInfo == IF IsSome(parseGitHubUrl(lib.website))
                    THEN parseGitHubUrl(lib.website)
                    ELSE parseGitHubUrl(lib.repository)
    IN  [name              |-> lib.name,
         author            |-> lib.author,
         website           |-> lib.website,
         repository        |-> lib.repository,
         has_repoInfo      |-> TRUE,
         repoInfo          |-> repoInfo,
         versions          |-> <<VersionInfo(lib)>>,
         stars             |-> Undefined,
         isArchived        |-> Undefined,
         pushedAt          |-> Undefined,
         openIssues        |-> Undefined,
         githubDescription |-> Undefined,
         license           |-> Undefined,
         topics            |-> Undefined]

\* The Package created for the first entry seen with a name.
NewPackage(lib) ==
    LET repoInfo == IF IsSome(parseGitHubUrl(lib.website))
                    THEN parseGitHubUrl(lib.website)
                    ELSE parseGitHubUrl(lib.repository)
    IN  [name              |-> lib.name,
         author            |-> lib.author,
         website           |-> lib.website,
         repository        |-> IF IsSome(repoInfo)
                               THEN RepositoryUrl(repoInfo[1].owner, repoInfo[1].repo)
                               ELSE <<>>,
         has_repoInfo      |-> TRUE,
         repoInfo          |-> repoInfo,
         versions          |-> <<VersionInfo(lib)>>,
         stars             |-> Undefined,
         isArchived        |-> Undefined,
         pushedAt          |-> Undefined,
         openIssues        |-> Undefined,
         githubDescription |-> Undefined,
         license           |-> Undefined,
         topics            |-> Undefined]

RECURSIVE GroupLibrariesLastWins(_, _)
GroupLibrariesLastWins(raw, map) ==
    IF raw = <<>> THEN map
    ELSE LET lib  == Head(raw)
             same == {k \in 1..Len(map) : map[k].name = lib.name}
         IN  IF lib.name = <<>> THEN GroupLibrariesLastWins(Tail(raw), map)
             ELSE IF same = {} THEN GroupLibrariesLastWins(Tail(raw), Append(map, NewPackage(lib)))
             ELSE GroupLibrariesLastWins(Tail(raw),
                     [map EXCEPT ![Min(same)] =
                         [NewPackage(lib) EXCEPT !.versions = Append(map[Min(same)].versions, VersionInfo(lib))]])

\* The loop over rawLibraries; map holds the Map's values in insertion order.
RECURSIVE GroupLibraries(_, _)
GroupLibraries(raw, map) ==
    IF raw = <<>> THEN map
    ELSE LET lib  == Head(raw)
             same == {k \in 1..Len(map) : map[k].name = lib.name}
         IN  IF lib.name = <<>> THEN GroupLibraries(Tail(raw), map)
             ELSE IF same = {} THEN GroupLibraries(Tail(raw), Append(map, NewPackage(lib)))
             ELSE GroupLibraries(Tail(raw),
                     [map EXCEPT ![Min(same)].versions = Append(@, VersionInfo(lib))])

CompareVersionInfoAscending(a, b) == compareSemver(b.version, a.version)

\* (a, b) => compareSemver(a.version, b.version)
CompareVersionInfo(a, b) == compareSemver(a.version, b.version)

\* lib.versions.sort((a, b) => compareSemver(a.version, b.version)) for every Package.
SortVersions(ls) ==
    [k \in 1..Len(ls) |->
        [ls[k] EXCEPT !.versions =
            StableSort(@, [i \in 1..Len(@) |-> [j \in 1..Len(@) |-> CompareVersionInfo(@[i], @[j])]])]]

\* The libraries arrays of the index payloads of the whole runs.
IndexLists == {<<>>, IndexScenario, IndexTwo, IndexFive}

\* uniqueLibraries as a function of rawLibraries, tabulated over IndexLists.
UniqueLibraries ==
    [rawLibraries \in IndexLists |-> SortVersions(GroupLibraries(rawLibraries, <<>>))]

NoLookup == [st |-> "idle", retryCount |-> 0]

\* The index is valid: group it by name and sort every version list. Nothing
\* is awaited from here to the first batch.
GroupAndSort ==
    /\ pc = "validate"
    /\ ~InvalidIndex(indexData[1])
    /\ LET rawLibraries    == indexData[1].libraries[1]
           uniqueLibraries == IF rawLibraries \in IndexLists
                              THEN UniqueLibraries[rawLibraries]
                              ELSE SortVersions(GroupLibraries(rawLibraries, <<>>))
       IN  /\ libs' = uniqueLibraries
           /\ lk' = [k \in 1..Len(uniqueLibraries) |-> NoLookup]
           /\ timer' = [k \in 1..Len(uniqueLibraries) |-> NoTimer]
           /\ trace' = [k \in 1..Len(uniqueLibraries) |-> <<>>]
           /\ call' = [k \in 1..Len(uniqueLibraries) |-> NoCall]
    /\ pc' = "batch"
    /\ ReturnedFromRetry
    /\ UNCHANGED <<indexData, batchStart, results, output, file, thrown, exitCode, now>>

\* ---------------------------------------------------------- fetchGitHubData

\* The parsed JSON body of a repository response.
RepoBody(stars, archived, rest) ==
    [stargazers_count  |-> stars,
     archived          |-> archived,
     pushed_at         |-> IF rest THEN Some(<<"t">>) ELSE Undefined,
     open_issues_count |-> IF rest THEN Some(2) ELSE Undefined,
     description       |-> IF rest THEN Some(<<"d">>) ELSE Undefined,
     license           |-> IF rest THEN Some(<<"M","I","T">>) ELSE Undefined,
     topics            |-> IF rest THEN Some(<<"iot">>) ELSE Undefined]

EmptyBody == RepoBody(Undefined, Undefined, FALSE)

RepoBodies ==
    {RepoBody(Some(n), Some(FALSE), TRUE) : n \in 1..MaxStars}
        \cup {RepoBody(Some(0), Some(TRUE), TRUE), EmptyBody}

Response(kind, reset, body) == [kind |-> kind, reset |-> reset, body |-> body]

\* The values of the x-ratelimit-reset header: none, or epoch seconds.
ResetHeaders == {Undefined} \cup {Some(t) : t \in 0..MaxReset}

\* What one request can end in: a 2xx response with a body, a 2xx response
\* whose body does not parse, 404, 403 or 429, another status, a transport
\* exception, the timeout's AbortError.
Responses ==
    {Response("ok", Undefined, b) : b \in RepoBodies}
        \cup {Response(k, Undefined, EmptyBody) : k \in {"badjson", "notfound", "status", "network", "timeout"}}
        \cup {Response("ratelimit", h, EmptyBody) : h \in ResetHeaders}

\* x ?? d
Coalesce(x, d) == IF IsSome(x) THEN x ELSE Some(d)

NotFoundDataNotArchived ==
    [stars |-> Some(0), isArchived |-> Some(FALSE), pushedAt |-> Undefined,
     openIssues |-> Undefined, description |-> Undefined, license |-> Undefined,
     topics |-> Undefined]

\* return { stars: 0, isArchived: true, error: 'not_found' }
NotFoundData ==
    [stars |-> Some(0), isArchived |-> Some(TRUE), pushedAt |-> Undefined,
     openIssues |-> Undefined, description |-> Undefined, license |-> Undefined,
     topics |-> Undefined]

RepoData(data) ==
    [stars       |-> Coalesce(data.stargazers_count, 0),
     isArchived  |-> Coalesce(data.archived, FALSE),
     pushedAt    |-> data.pushed_at,
     openIssues  |-> Coalesce(data.open_issues_count, 0),
     description |-> data.description,
     license     |-> Coalesce(data.license, <<>>),
     topics      |-> Coalesce(data.topics, <<>>)]

Return(data) == [tag |-> "return", data |-> data]

\* if (retryCount >= MAX_RETRIES): the rate-limit branch gives up.
RateLimitExhausted(retryCount) == retryCount >= MAX_RETRIES

CaughtAndRethrown(kind) == [tag |-> "throw", data |-> Undefined]

CaughtAndRetried(kind) == [tag |-> "wait", data |-> Undefined]

\* What the catch block makes of an exception thrown in the try block.
Caught(kind) == Return(Undefined)

\* One request of fetchGitHubData(repoInfo, retryCount) answered by r: the
\* call returns data or null, sleeps before calling itself again, or throws.
fetchGitHubData(retryCount, r) ==
    CASE r.kind \in {"network", "timeout"} -> Caught(r.kind)
      [] r.kind = "ratelimit" ->
            IF RateLimitExhausted(retryCount) THEN Return(Undefined)
            ELSE [tag |-> "wait", data |-> Undefined]
      [] r.kind = "notfound" -> Return(Some(NotFoundData))
      [] r.kind = "status"   -> Caught(r.kind)
      [] r.kind = "badjson"  -> Caught(r.kind)
      [] r.kind = "ok"       -> Return(Some(RepoData(r.body)))

\* Date.now() at tick t of the clock, in milliseconds.
DateNow(t) == (t * 1000) \div TicksPerSec

WaitTimeMsUnclamped(reset, nowMs) ==
    IF IsSome(reset) THEN (reset[1] * 1000 - nowMs) + ResetMarginSec * 1000
    ELSE DefaultWaitSec * 1000

\* waitTimeSec * 1000, the delay handed to setTimeout by the rate-limit
\* branch when Date.now() is nowMs:
\* (Math.max(0, (resetTimeMs - Date.now()) / 1000) + 1) * 1000 with a reset
\* header, 60 * 1000 without one.
WaitTimeMs(reset, nowMs) ==
    LET resetTimeMs == reset[1] * 1000
        leftMs      == resetTimeMs - nowMs
    IN  IF IsSome(reset)
        THEN (IF leftMs > 0 THEN leftMs ELSE 0) + ResetMarginSec * 1000
        ELSE DefaultWaitSec * 1000

\* --------------------------------------------------------- processInBatches

BatchSlicedToSize(i, n) == {k \in 1..n : i < k /\ k <= CONCURRENT_REQUESTS}

\* items.slice(i, i + batchSize), as positions in libs.
Batch(i, n) == {k \in 1..n : i < k /\ k <= i + CONCURRENT_REQUESTS}

InFlight(l) == l.st \in {"inflight", "sleep"}

\* await Promise.all(...): the join rejects as soon as one call has rejected
\* and resolves once every call has fulfilled.
JoinRejects(l, batch) == \E k \in batch : l[k].st = "rejected"

JoinResolvesOnFirst(l, batch) == \E k \in batch : l[k].st = "fulfilled"

JoinResolves(l, batch) == \A k \in batch : l[k].st = "fulfilled"

EnrichedKeepingRepoInfo(lib, githubData) ==
    IF IsSome(githubData)
    THEN [lib EXCEPT !.stars             = githubData[1].stars,
                     !.isArchived        = githubData[1].isArchived,
                     !.pushedAt          = githubData[1].pushedAt,
                     !.openIssues        = githubData[1].openIssues,
                     !.githubDescription = githubData[1].description,
                     !.license           = githubData[1].license,
                     !.topics            = githubData[1].topics]
    ELSE lib

\* The processor's assignments once fetchGitHubData has returned githubData,
\* and its delete lib._repoInfo.
Enriched(lib, githubData) ==
    LET set == IF IsSome(githubData)
               THEN [lib EXCEPT !.stars             = githubData[1].stars,
                                !.isArchived        = githubData[1].isArchived,
                                !.pushedAt          = githubData[1].pushedAt,
                                !.openIssues        = githubData[1].openIssues,
                                !.githubDescription = githubData[1].description,
                                !.license           = githubData[1].license,
                                !.topics            = githubData[1].topics]
               ELSE lib
    IN  [set EXCEPT !.has_repoInfo = FALSE, !.repoInfo = Undefined]

\* The loop body up to its await: the processor is called on every item of
\* the batch; each call runs to its first await (the request of
\* fetchGitHubData) or, for a Package without a RepoIdentity, to its end.
StartBatchCore ==
    /\ pc = "batch"
    /\ batchStart < Len(libs)
    /\ LET batch == Batch(batchStart, Len(libs))
       IN  /\ lk' = [k \in 1..Len(libs) |->
                        IF k \notin batch THEN lk[k]
                        ELSE IF IsSome(libs[k].repoInfo)
                        THEN [st |-> "inflight", retryCount |-> 0]
                        ELSE [st |-> "fulfilled", retryCount |-> 0]]
           /\ libs' = [k \in 1..Len(libs) |->
                        IF k \in batch /\ ~IsSome(libs[k].repoInfo)
                        THEN Enriched(libs[k], Undefined)
                        ELSE libs[k]]
    /\ pc' = "await"
    /\ UNCHANGED <<indexData, batchStart, results, output, file, thrown, exitCode>>
    /\ UNCHANGED retryVars

StartBatch == StartBatchCore /\ UNCHANGED auxVars

\* The join of the batch settles. Resolved, the batch's results are pushed
\* and the loop goes on; rejected, generateRegistry rejects and the process
\* exits with code 1.
JoinBatch ==
    /\ pc = "await"
    /\ LET batch == Batch(batchStart, Len(libs))
       IN  IF JoinRejects(lk, batch)
           THEN /\ thrown' = Some([kind |-> "processor", at |-> 0])
                /\ exitCode' = Some(1)
                /\ pc' = "fatal"
                /\ UNCHANGED <<batchStart, results>>
           ELSE /\ JoinResolves(lk, batch)
                /\ results' = results \o [j \in 1..Cardinality(batch) |-> batchStart + j]
                /\ batchStart' = batchStart + CONCURRENT_REQUESTS
                /\ pc' = "batch"
                /\ UNCHANGED <<thrown, exitCode>>
    /\ UNCHANGED <<indexData, libs, lk, output, file>>
    /\ UNCHANGED retryVars
    /\ UNCHANGED auxVars

\* The request of Package k's lookup is answered by r; what follows runs
\* without another await: fetchGitHubData returns or throws and the
\* processor finishes, or fetchGitHubData starts its rate-limit sleep.
RespondCore(k, r) ==
    /\ exitCode = Undefined
    /\ k \in 1..Len(lk)
    /\ lk[k].st = "inflight"
    /\ LET out == fetchGitHubData(lk[k].retryCount, r)
       IN  CASE out.tag = "wait" ->
                    /\ lk' = [lk EXCEPT ![k].st = "sleep"]
                    /\ UNCHANGED libs
             [] out.tag = "throw" ->
                    /\ lk' = [lk EXCEPT ![k] = [st |-> "rejected", retryCount |-> 0]]
                    /\ UNCHANGED libs
             [] out.tag = "return" ->
                    /\ lk' = [lk EXCEPT ![k] = [st |-> "fulfilled", retryCount |-> 0]]
                    /\ libs' = [libs EXCEPT ![k] = Enriched(@, out.data)]
    /\ UNCHANGED <<pc, indexData, batchStart, results, output, file, thrown, exitCode>>
    /\ UNCHANGED retryVars

\* The sleep of Package k's lookup ends: fetchGitHubData calls itself with
\* retryCount + 1, which issues the next request.
WakeCore(k) ==
    /\ exitCode = Undefined
    /\ k \in 1..Len(lk)
    /\ lk[k].st = "sleep"
    /\ lk' = [lk EXCEPT ![k] = [st |-> "inflight", retryCount |-> @.retryCount + 1]]
    /\ UNCHANGED <<pc, indexData, libs, batchStart, results, output, file, thrown, exitCode>>
    /\ UNCHANGED retryVars

\* The lookup steps with the length of the sleeps left open.
Respond(k, r) == RespondCore(k, r) /\ UNCHANGED auxVars

Wake(k) == WakeCore(k) /\ UNCHANGED auxVars

\* ------------------------------------------------- filter, sort and write

TruthyOrAbsent(flag) == ~IsSome(flag) \/ flag[1]

\* lib.isArchived as a condition.
Truthy(flag) == IsSome(flag) /\ flag[1]

RetainedWithoutArchiveCheck(lib) == lib.repository # <<>>

\* lib.repository && !lib.isArchived
Retained(lib) == lib.repository # <<>> /\ ~Truthy(lib.isArchived)

\* a.stars ?? 0
StarsOf(lib) == Coalesce(lib.stars, 0)[1]

CompareLibrariesByStarsOnly(a, b) == StarsOf(b) - StarsOf(a)

\* The comparator of the final sort.
CompareLibraries(a, b) ==
    IF StarsOf(b) # StarsOf(a) THEN StarsOf(b) - StarsOf(a)
    ELSE localeCompare(a.name, b.name)

FinalRegistry(enrichedLibraries) ==
    LET kept == SelectSeq(enrichedLibraries, Retained)
    IN  StableSort(kept, [i \in 1..Len(kept) |-> [j \in 1..Len(kept) |-> CompareLibraries(kept[i], kept[j])]])

\* processInBatches has returned: filter, sort, build the output and hand
\* its serialisation to fs.writeFile.
FilterSortWrite ==
    /\ pc = "batch"
    /\ batchStart >= Len(libs)
    /\ LET finalRegistry == FinalRegistry([j \in 1..Len(results) |-> libs[results[j]]])
       IN  output' = Some([totalLibraries |-> Len(finalRegistry), libraries |-> finalRegistry])
    /\ pc' = "write"
    /\ UNCHANGED <<indexData, file, thrown, exitCode>>
    /\ UNCHANGED retryVars
    /\ UNCHANGED batchVars
    /\ UNCHANGED auxVars

\* The write completes; generateRegistry resolves and the process ends.
WriteDone ==
    /\ pc = "write"
    /\ file' = Append(file, output[1])
    /\ exitCode' = Some(0)
    /\ pc' = "done"
    /\ UNCHANGED <<indexData, output, thrown>>
    /\ UNCHANGED retryVars
    /\ UNCHANGED batchVars
    /\ UNCHANGED auxVars

\* ----------------------------------------------------------- specifications

\* The responses without a reset header: the header only decides how long a
\* rate-limit sleep lasts.
UntimedResponses == {r \in Responses : r.reset = Undefined}

Next ==
    \/ \E kind \in IndexErrorKinds : AttemptFail(kind)
    \/ RetryWake
    \/ \E payload \in IndexPayloads : AttemptSucceed(payload)
    \/ ValidateFail
    \/ GroupAndSort
    \/ StartBatch
    \/ \E k \in 1..Len(lk) : \E r \in UntimedResponses : Respond(k, r)
    \/ \E k \in 1..Len(lk) : Wake(k)
    \/ JoinBatch
    \/ FilterSortWrite
    \/ WriteDone

\* The whole run, with the length of every sleep left open.
Spec == Init /\ [][Next]_vars

\* The index payloads of the runs followed to their end.
IndexPayloadsLive ==
    (IndexPayloads \ {IndexPayload(IndexFive)}) \cup {IndexPayload(IndexTwo)}

NextLive ==
    \/ \E kind \in IndexErrorKinds : AttemptFail(kind)
    \/ RetryWake
    \/ \E payload \in IndexPayloadsLive : AttemptSucceed(payload)
    \/ ValidateFail
    \/ GroupAndSort
    \/ StartBatch
    \/ \E k \in 1..Len(lk) : \E r \in UntimedResponses : Respond(k, r)
    \/ \E k \in 1..Len(lk) : Wake(k)
    \/ JoinBatch
    \/ FilterSortWrite
    \/ WriteDone

\* The whole run on an event loop that runs every callback that is ready,
\* against servers whose every request ends in a response or an exception.
SpecLive == Init /\ [][NextLive]_vars /\ WF_vars(NextLive)

\* withRetry alone, for every maxRetries argument.
InitRetry == \E m \in 1..MaxRetriesArg : InitWith(m)

NextRetry ==
    \/ \E kind \in IndexErrorKinds : AttemptFail(kind)
    \/ RetryWake
    \/ \E payload \in IndexPayloads : AttemptSucceed(payload)

SpecRetry == InitRetry /\ [][NextRetry]_vars

\* The state of a run whose index fetch returned libraries at its first
\* attempt, once the packages are grouped and their versions sorted.
InitGrouped(libraries) ==
    /\ pc = "batch"
    /\ maxRetries = MAX_RETRIES
    /\ attempt = 0
    /\ lastError = Undefined
    /\ fnCalls = 0
    /\ delay = <<>>
    /\ indexData = Some(IndexPayload(libraries))
    /\ libs = SortVersions(GroupLibraries(libraries, <<>>))
    /\ lk = [k \in 1..Len(libs) |-> NoLookup]
    /\ batchStart = 0
    /\ results = <<>>
    /\ output = Undefined
    /\ file = <<>>
    /\ thrown = Undefined
    /\ exitCode = Undefined
    /\ now = 0
    /\ timer = [k \in 1..Len(libs) |-> NoTimer]
    /\ trace = [k \in 1..Len(libs) |-> <<>>]
    /\ call = [k \in 1..Len(libs) |-> NoCall]

\* One response of each kind processInBatches can tell apart.
BatchResponses ==
    {Response("ok", Undefined, RepoBody(Some(1), Some(FALSE), TRUE))}
        \cup {Response(k, Undefined, EmptyBody) : k \in {"notfound", "ratelimit", "status", "timeout"}}

InitBatch == InitGrouped(IndexSix)

NextBatch ==
    \/ StartBatch
    \/ \E k \in 1..Len(lk) : \E r \in BatchResponses : Respond(k, r)
    \/ \E k \in 1..Len(lk) : Wake(k)
    \/ JoinBatch
    \/ FilterSortWrite
    \/ WriteDone

\* The enrichment of six packages: two batches.
SpecBatch == InitBatch /\ [][NextBatch]_vars

\* processInBatches on no item, on as many items as one batch holds, and on
\* one item more.
InitProcess == \E libraries \in {<<>>, IndexFive, IndexSix} : InitGrouped(libraries)

SpecProcess == InitProcess /\ [][NextBatch]_vars

\* Time passes.
Tick ==
    /\ now < MaxTime
    /\ now' = now + 1
    /\ UNCHANGED <<pc, indexData, output, file, thrown, exitCode, timer, trace, call>>
    /\ UNCHANGED retryVars
    /\ UNCHANGED batchVars

\* await new Promise(resolve => setTimeout(resolve, waitTimeSec * 1000)): the
\* timer does not fire before its delay has passed.
TimerDue(t, sleep) == DateNow(t) >= DateNow(sleep.sleptAt) + sleep.waitMs

\* The lookup steps with the clock: a rate-limit response starts a sleep of
\* the computed length, and the sleep ends when its timer is due.
TimedRespond(k, r) ==
    /\ RespondCore(k, r)
    /\ timer' = IF fetchGitHubData(lk[k].retryCount, r).tag = "wait"
                THEN [timer EXCEPT ![k] = [sleptAt |-> now, reset |-> r.reset,
                                           waitMs |-> WaitTimeMs(r.reset, DateNow(now))]]
                ELSE timer
    /\ UNCHANGED <<now, trace, call>>

TimedWake(k) ==
    /\ WakeCore(k)
    /\ TimerDue(now, timer[k])
    /\ timer' = [timer EXCEPT ![k] = NoTimer]
    /\ UNCHANGED <<now, trace, call>>

InitTimed == InitGrouped(IndexOne)

NextTimed ==
    \/ StartBatch
    \/ Tick
    \/ \E k \in 1..Len(lk) : \E r \in Responses : TimedRespond(k, r)
    \/ \E k \in 1..Len(lk) : TimedWake(k)

\* One lookup against the clock.
SpecTimed == InitTimed /\ [][NextTimed]_vars

\* The lookup step that records the response.
TracedRespond(k, r) ==
    /\ RespondCore(k, r)
    /\ trace' = [trace EXCEPT ![k] = Append(@, r)]
    /\ UNCHANGED <<now, timer, call>>

InitTrace == InitGrouped(IndexTwo)

NextTrace ==
    \/ StartBatch
    \/ \E k \in 1..Len(lk) : \E r \in UntimedResponses : TracedRespond(k, r)
    \/ \E k \in 1..Len(lk) : Wake(k)
    \/ JoinBatch
    \/ FilterSortWrite
    \/ WriteDone

\* Two concurrent lookups, with the responses each has received.
SpecTrace == InitTrace /\ [][NextTrace]_vars

\* The grouping stage alone, for every raw list of GroupEntries.
InitGroup == InitWith(MAX_RETRIES)

NextGroup ==
    \/ pc = "fetchIndex" /\ \E rawLibraries \in RawLists : AttemptSucceed(IndexPayload(rawLibraries))
    \/ GroupAndSort

SpecGroup == InitGroup /\ [][NextGroup]_vars

\* The version sort of a Package with two versions, for every pair of
\* version strings.
NextSemver ==
    \/ pc = "fetchIndex" /\ \E rawLibraries \in SemverLists : AttemptSucceed(IndexPayload(rawLibraries))
    \/ GroupAndSort

SpecSemver == InitGroup /\ [][NextSemver]_vars

\* The creation of a Package from one entry, for every URL string.
NextUrl ==
    \/ pc = "fetchIndex" /\ \E rawLibraries \in UrlLists : AttemptSucceed(IndexPayload(rawLibraries))
    \/ GroupAndSort

SpecUrl == InitGroup /\ [][NextUrl]_vars

\* ------------------------------------------------------- fetchWithTimeout

\* fetchWithTimeout is called: the abort timer is set and fetch is pending.
FetchCall(t) == [phase |-> "fetch", startedAt |-> t]

\* The abort timer set by setTimeout(() => controller.abort(), FETCH_TIMEOUT_MS)
\* is armed while fetch is pending; the finally block clears it when fetch
\* settles, that is when the response's status and headers are there.
AbortArmed(c) == c.phase = "fetch"

AbortDue(t, c) == AbortArmed(c) /\ DateNow(t) >= DateNow(c.startedAt) + FETCH_TIMEOUT_MS

\* The responses whose body fetchGitHubData goes on to read with
\* response.json(): those with an ok status.
ReadsBody(r) == r.kind \in {"ok", "badjson"}

\* The sleep a response starts in the lookup, if it starts one.
TimerAfter(k, r) ==
    IF fetchGitHubData(lk[k].retryCount, r).tag = "wait"
    THEN [timer EXCEPT ![k] = [sleptAt |-> now, reset |-> r.reset,
                               waitMs |-> WaitTimeMs(r.reset, DateNow(now))]]
    ELSE timer

\* The processor calls of a batch start: each lookup calls fetchWithTimeout.
FetchStartBatch ==
    /\ StartBatchCore
    /\ call' = [k \in 1..Len(lk) |->
                  IF lk[k].st = "idle" /\ lk'[k].st = "inflight" THEN FetchCall(now) ELSE call[k]]
    /\ UNCHANGED <<now, timer, trace>>

\* fetch settles before the abort timer fires: with a response r (status and
\* headers) or with a transport exception. fetchWithTimeout clears the
\* timer and returns or rethrows. A response with an ok status leaves
\* response.json() pending; every other one is dealt with at once.
FetchSettles(k, r) ==
    /\ k \in 1..Len(lk)
    /\ call[k].phase = "fetch"
    /\ ~AbortDue(now, call[k])
    /\ r.kind # "timeout"
    /\ IF ReadsBody(r)
       THEN /\ call' = [call EXCEPT ![k].phase = "body"]
            /\ UNCHANGED <<pc, indexData, output, file, thrown, exitCode, timer>>
            /\ UNCHANGED retryVars
            /\ UNCHANGED batchVars
       ELSE /\ RespondCore(k, r)
            /\ timer' = TimerAfter(k, r)
            /\ call' = [call EXCEPT ![k] = NoCall]
    /\ UNCHANGED <<now, trace>>

\* The abort timer fires while fetch is pending: fetch rejects with an
\* AbortError, which the catch block of fetchGitHubData reports as a timeout.
AbortFires(k) ==
    /\ k \in 1..Len(lk)
    /\ AbortDue(now, call[k])
    /\ RespondCore(k, Response("timeout", Undefined, EmptyBody))
    /\ call' = [call EXCEPT ![k] = NoCall]
    /\ UNCHANGED <<now, timer, trace>>

\* The body of a response arrives in full and response.json() settles.
BodyArrives(k, r) ==
    /\ k \in 1..Len(lk)
    /\ call[k].phase = "body"
    /\ ReadsBody(r)
    /\ RespondCore(k, r)
    /\ call' = [call EXCEPT ![k] = NoCall]
    /\ UNCHANGED <<now, timer, trace>>

\* The rate-limit sleep ends and the lookup calls fetchWithTimeout again.
FetchWake(k) ==
    /\ WakeCore(k)
    /\ TimerDue(now, timer[k])
    /\ timer' = [timer EXCEPT ![k] = NoTimer]
    /\ call' = [call EXCEPT ![k] = FetchCall(now)]
    /\ UNCHANGED <<now, trace>>

\* Time passes, but not past a timer that is armed and due: the event loop
\* is idle while the lookups wait, so a due timer runs at once.
FetchTick ==
    /\ \A k \in 1..Len(call) : ~AbortDue(now, call[k])
    /\ Tick

\* What the server answers a request with in SpecFetch.
FetchResponses ==
    {Response("ok", Undefined, RepoBody(Some(1), Some(FALSE), TRUE)),
     Response("ratelimit", Some(0), EmptyBody)}
        \cup {Response(k, Undefined, EmptyBody) : k \in {"badjson", "notfound", "status", "network"}}

InitFetch == InitGrouped(IndexOne)

NextFetch ==
    \/ FetchStartBatch
    \/ FetchTick
    \/ \E k \in 1..Len(lk) : \E r \in FetchResponses : FetchSettles(k, r)
    \/ \E k \in 1..Len(lk) : AbortFires(k)
    \/ \E k \in 1..Len(lk) : \E r \in FetchResponses : BodyArrives(k, r)
    \/ \E k \in 1..Len(lk) : FetchWake(k)

\* One lookup, its requests followed through fetchWithTimeout and the body
\* read, against the clock.
SpecFetch == InitFetch /\ [][NextFetch]_vars

\* ------------------------------------------------------------------- claims

\* Every libraries list handed to the writer or written to the file.
WrittenLists == {o.libraries : o \in Range(output) \cup Range(file)}

\* C1: the libraries list generateRegistry writes holds no package whose
\* isArchived is true and no package whose repository is absent, whatever
\* the index and the outcome of every lookup.
C1_NoArchivedNoMissingRepository ==
    \A ls \in WrittenLists : \A j \in 1..Len(ls) :
        /\ ls[j].isArchived # Some(TRUE)
        /\ ls[j].repository # <<>>

\* A written, non-empty list of a run in which one package was archived and
\* another had no repository.
C1_Witness ==
    /\ file # <<>>
    /\ Len(file[1].libraries) >= 1
    /\ \E k \in 1..Len(libs) : libs[k].isArchived = Some(TRUE)
    /\ \E k \in 1..Len(libs) : libs[k].repository = <<>>

\* a <= b in the order of the UTF-16 code units (case-sensitive).
CodeUnitLeq(a, b) ==
    LexCompare([i \in 1..Len(a) |-> CodeUnit(a[i])], [i \in 1..Len(b) |-> CodeUnit(b[i])]) <= 0

\* C2 as stated: the written list is sorted by stars descending (absent
\* stars counting as 0) and, on equal stars, by name ascending in
\* case-sensitive lexicographic order.
C2_SortedCaseSensitive ==
    \A ls \in WrittenLists : \A j \in 1..(Len(ls) - 1) :
        /\ StarsOf(ls[j]) >= StarsOf(ls[j + 1])
        /\ StarsOf(ls[j]) = StarsOf(ls[j + 1]) => CodeUnitLeq(ls[j].name, ls[j + 1].name)

\* C2 amended: the written list is sorted by stars descending (absent stars
\* counting as 0) and, on equal stars, by name ascending in the order of
\* localeCompare, which puts "a" before "B"; the list is the one sorted
\* arrangement of the retained packages.
C2_SortedByLocaleCompare ==
    \A ls \in WrittenLists :
        /\ \A j \in 1..(Len(ls) - 1) :
              /\ StarsOf(ls[j]) >= StarsOf(ls[j + 1])
              /\ StarsOf(ls[j]) = StarsOf(ls[j + 1]) => localeCompare(ls[j].name, ls[j + 1].name) <= 0
        /\ Range(ls) = {libs[k] : k \in {i \in 1..Len(libs) : Retained(libs[i])}}

\* A written list with a pair that differs in stars and a pair with equal
\* stars whose names differ in case.
C2_Witness ==
    /\ file # <<>>
    /\ LET ls == file[1].libraries
       IN  /\ \E j \in 1..(Len(ls) - 1) : StarsOf(ls[j]) > StarsOf(ls[j + 1])
           /\ \E j \in 1..(Len(ls) - 1) :
                 /\ StarsOf(ls[j]) = StarsOf(ls[j + 1])
                 /\ ls[j].name = <<"a">>
                 /\ ls[j + 1].name = <<"B">>

\* The batch a position of libs belongs to, counted from 0.
BatchOf(k) == (k - 1) \div CONCURRENT_REQUESTS

Settled(l) == l.st \in {"fulfilled", "rejected"}

InFlightCount == Cardinality({k \in 1..Len(lk) : InFlight(lk[k])})

\* C3: no processor call of a later batch has started while a call of an
\* earlier batch is unsettled, and at most CONCURRENT_REQUESTS lookups are
\* in flight (a lookup asleep in a rate-limit wait counts).
C3_BatchesDoNotOverlap ==
    /\ InFlightCount <= CONCURRENT_REQUESTS
    /\ \A j, k \in 1..Len(lk) :
          (BatchOf(j) < BatchOf(k) /\ lk[k].st # "idle") => Settled(lk[j])

\* A full batch in flight, one of its lookups asleep, the next batch not started.
C3_Witness ==
    /\ InFlightCount = CONCURRENT_REQUESTS
    /\ \E k \in 1..Len(lk) : lk[k].st = "sleep"
    /\ \E k \in 1..Len(lk) : lk[k].st = "idle"

\* What a lookup that has received the responses tr has made of its Package:
\* the last response alone decides, and a rate-limit response decides only
\* when it exhausts the retries.
OutcomeOf(lib, l, tr) ==
    IF tr = <<>> THEN <<lib, l>>
    ELSE LET r   == tr[Len(tr)]
             out == fetchGitHubData(Len(tr) - 1, r)
         IN  IF out.tag = "wait"
             THEN <<lib, [st |-> IF l.st = "sleep" THEN "sleep" ELSE "inflight",
                          retryCount |-> IF l.st = "sleep" THEN Len(tr) - 1 ELSE Len(tr)]>>
             ELSE <<Enriched(lib, out.data), [st |-> "fulfilled", retryCount |-> 0]>>

\* The Package as grouping left it.
Grouped(k) == SortVersions(GroupLibraries(indexData[1].libraries[1], <<>>))[k]

\* C4: under every interleaving of the lookups of a batch, what a Package
\* and its lookup have come to is decided by the responses to that Package's
\* own requests; no lookup is rejected or dropped because of another, and
\* the join of the batch never rejects.
C4_Isolation ==
    /\ pc # "fatal"
    /\ thrown = Undefined
    /\ \A k \in 1..Len(lk) :
          lk[k].st # "idle" => <<libs[k], lk[k]>> = OutcomeOf(Grouped(k), lk[k], trace[k])

\* One lookup has failed on a timeout and left its Package without data
\* while the other, rate limited once, has then enriched its own.
C4_Witness ==
    /\ Len(lk) = 2
    /\ lk[1].st = "fulfilled"
    /\ trace[1] # <<>>
    /\ trace[1][Len(trace[1])].kind = "timeout"
    /\ libs[1].stars = Undefined
    /\ lk[2].st = "fulfilled"
    /\ Len(trace[2]) = 2
    /\ trace[2][1].kind = "ratelimit"
    /\ libs[2].stars = Some(1)

\* The payload passes as an index: it is an object with a libraries array.
HasLibrariesArray(payload) == ~payload.isNull /\ IsSome(payload.libraries)

ValidIndexFetched == IsSome(indexData) /\ HasLibrariesArray(indexData[1])

\* Where a run stands: the file and the exit code against the phase, and no
\* phase of the enrichment without a step to take.
C5_Phases ==
    /\ Len(file) <= 1
    /\ file # <<>> <=> pc = "done"
    /\ exitCode = Some(0) <=> pc = "done"
    /\ exitCode = Some(1) <=> pc = "fatal"
    /\ pc = "done" => ValidIndexFetched
    /\ ValidIndexFetched => pc # "fatal"
    /\ pc = "fatal" =>
          \/ thrown[1].kind = "format" /\ IsSome(indexData) /\ ~HasLibrariesArray(indexData[1])
          \/ thrown[1].kind \in IndexErrorKinds /\ thrown[1].at = MAX_RETRIES /\ ~IsSome(indexData)
    /\ pc = "await" => (\E k \in 1..Len(lk) : InFlight(lk[k])) \/ ENABLED JoinBatch
    /\ pc = "batch" => ENABLED StartBatch \/ ENABLED FilterSortWrite
    /\ pc = "write" => ENABLED WriteDone

RequestsIssued(k) == Len(trace[k]) + (IF lk[k].st = "inflight" THEN 1 ELSE 0)

\* C6 as stated: against an API that keeps answering with a rate-limit
\* status, one lookup issues at most MAX_RETRIES requests, the bound
\* withRetry puts on the invocations of its operation, and the lookup that
\* has used them up ends with no data and nothing thrown.
C6_AtMostMaxRetriesRequests ==
    \A k \in 1..Len(lk) :
        /\ RequestsIssued(k) <= MAX_RETRIES
        /\ lk[k].st # "rejected"
        /\ (Len(trace[k]) >= MAX_RETRIES /\ \A i \in 1..Len(trace[k]) : trace[k][i].kind = "ratelimit")
              => lk[k].st = "fulfilled" /\ libs[k].stars = Undefined

\* The response kinds that are failures of one request: a status other than
\* 2xx, 403, 429 and 404, a transport exception, the timeout's abort, a body
\* that does not parse.
FailureKinds == {"status", "network", "timeout", "badjson"}

\* C7: no lookup is ever rejected and nothing reaches the caller; a failed
\* request, the first of its lookup or one re-issued after a rate-limit
\* wait, is the last request of that lookup and leaves its Package without
\* enrichment data.
C7_NeverRejects ==
    /\ exitCode # Some(1)
    /\ \A k \in 1..Len(lk) :
          /\ lk[k].st # "rejected"
          /\ \A i \in 1..Len(trace[k]) :
                trace[k][i].kind \in FailureKinds =>
                    /\ i = Len(trace[k])
                    /\ RequestsIssued(k) = i
                    /\ lk[k].st = "fulfilled"
                    /\ libs[k] = Enriched(Grouped(k), Undefined)

\* A lookup rate limited twice whose third request failed on an unexpected
\* status, in a run that went on to write the file.
C7_Witness ==
    /\ pc = "done"
    /\ Len(trace[1]) = 3
    /\ trace[1][1].kind = "ratelimit"
    /\ trace[1][2].kind = "ratelimit"
    /\ trace[1][3].kind = "status"
    /\ lk[1].st = "fulfilled"
    /\ libs[1].stars = Undefined

\* C8: a 404 is the last response of its lookup (no retry follows), the
\* lookup is fulfilled with stars 0 and isArchived true applied to the
\* Package, and no written list holds that Package.
C8_NotFoundIsEnrichment ==
    \A k \in 1..Len(lk) : \A i \in 1..Len(trace[k]) :
        trace[k][i].kind = "notfound" =>
            /\ i = Len(trace[k])
            /\ RequestsIssued(k) = i
            /\ lk[k].st = "fulfilled"
            /\ libs[k].stars = Some(0)
            /\ libs[k].isArchived = Some(TRUE)
            /\ \A ls \in WrittenLists : \A j \in 1..Len(ls) : ls[j].name # libs[k].name

\* The file is written with one Package while the other's repository
\* answered 404.
C8_Witness ==
    /\ pc = "done"
    /\ \E k \in 1..Len(lk) :
          /\ trace[k] # <<>>
          /\ trace[k][Len(trace[k])].kind = "notfound"
          /\ libs[k].repository # <<>>
    /\ Len(file[1].libraries) = 1

\* The sleep C9 states, in milliseconds, for a rate-limit response with
\* header reset received when the clock read nowMs.
StatedWaitMs(reset, nowMs) ==
    IF IsSome(reset)
    THEN Max({0, reset[1] * 1000 - nowMs}) + 1000
    ELSE 60 * 1000

C9_Sleeping ==
    \A k \in 1..Len(lk) :
        lk[k].st = "sleep" =>
            /\ lk[k].retryCount < MAX_RETRIES
            /\ timer[k].waitMs = StatedWaitMs(timer[k].reset, DateNow(timer[k].sleptAt))
            /\ timer[k].waitMs >= 0

C9_Reissue ==
    \A k \in 1..Len(lk) :
        (lk[k].st = "sleep" /\ lk'[k].st # "sleep") =>
            /\ lk'[k].st = "inflight"
            /\ DateNow(now) >= DateNow(timer[k].sleptAt)
                                + StatedWaitMs(timer[k].reset, DateNow(timer[k].sleptAt))

\* C9: a lookup sleeps only on a rate-limit response that does not exhaust
\* its retries; the sleep is max(0, T - now) plus one second for a reset
\* header T and 60 seconds without one, never negative; and the request is
\* re-issued only once the clock has passed the end of the sleep.
C9_WaitBeforeReissue == [](C9_Sleeping) /\ [][C9_Reissue]_vars

\* A lookup re-issued once and asleep again, for a reset time still ahead of
\* a clock that is not on a whole second.
C9_Witness ==
    /\ Len(lk) = 1
    /\ lk[1].st = "sleep"
    /\ lk[1].retryCount >= 1
    /\ IsSome(timer[1].reset)
    /\ timer[1].reset[1] * 1000 > DateNow(timer[1].sleptAt)
    /\ DateNow(timer[1].sleptAt) % 1000 # 0

\* C10: fn is invoked at most maxRetries times; a success is returned at
\* once (the invocations number the attempts, all earlier ones failed, one
\* sleep lies between two consecutive invocations); when invocation
\* maxRetries fails withRetry rejects with that invocation's error, not
\* having slept after it.
C10_WithRetry ==
    /\ fnCalls <= maxRetries
    /\ pc \in {"fetchIndex", "validate"} =>
          /\ fnCalls = attempt
          /\ Len(delay) = fnCalls - 1
          /\ thrown = Undefined
          /\ IF fnCalls = 1 THEN lastError = Undefined
             ELSE IsSome(lastError) /\ lastError[1].at = fnCalls - 1
    /\ pc = "validate" => IsSome(indexData)
    /\ pc = "retrySleep" =>
          /\ fnCalls = attempt
          /\ fnCalls < maxRetries
          /\ Len(delay) = fnCalls
          /\ thrown = Undefined
    /\ pc = "fatal" =>
          /\ fnCalls = maxRetries
          /\ IsSome(thrown)
          /\ thrown = lastError
          /\ thrown[1].at = maxRetries
          /\ Len(delay) = maxRetries - 1
          /\ indexData = Undefined

\* Three invocations failed in turn, with two sleeps between them, and the
\* third one's timeout is what withRetry rejected with.
C10_Witness ==
    /\ pc = "fatal"
    /\ maxRetries = 3
    /\ fnCalls = 3
    /\ Len(delay) = 2
    /\ thrown = Some([kind |-> "timeout", at |-> 3])

\* C11 as stated: no call made through fetchWithTimeout, the reading of the
\* response body included, is pending for longer than FETCH_TIMEOUT_MS.
C11_CallsBounded ==
    \A k \in 1..Len(call) :
        call[k].phase # "none" =>
            DateNow(now) - DateNow(call[k].startedAt) <= FETCH_TIMEOUT_MS

\* The raw entry list of the index that was fetched.
RawLibraries == indexData[1].libraries[1]

\* The position of the first raw entry with a name.
FirstAt(raw, name) == Min({i \in 1..Len(raw) : raw[i].name = name})

\* The VersionRecords of the raw entries with a name, in index order.
RecordsOf(raw, name) ==
    LET own == SelectSeq(raw, LAMBDA e : e.name = name)
    IN  [i \in 1..Len(own) |-> [version |-> own[i].version, checksum |-> own[i].checksum]]

Count(seq, x) == Cardinality({i \in 1..Len(seq) : seq[i] = x})

\* C12: after grouping there is one Package per distinct name of the named
\* entries and none for a nameless entry; a Package's versions are, counted
\* with repetitions, the VersionRecords of the raw entries with its name;
\* its author, website and repository are those of the first entry with
\* its name; the Packages are in first-seen order.
C12_Grouping ==
    pc = "batch" =>
        LET raw == RawLibraries
        IN  /\ {libs[k].name : k \in 1..Len(libs)} =
                   {raw[i].name : i \in {h \in 1..Len(raw) : raw[h].name # <<>>}}
            /\ \A j, k \in 1..Len(libs) : j < k =>
                   /\ libs[j].name # libs[k].name
                   /\ FirstAt(raw, libs[j].name) < FirstAt(raw, libs[k].name)
            /\ \A k \in 1..Len(libs) :
                   LET first == raw[FirstAt(raw, libs[k].name)]
                       own   == RecordsOf(raw, libs[k].name)
                   IN  /\ libs[k].versions # <<>>
                       /\ Len(libs[k].versions) = Len(own)
                       /\ \A v \in Range(own) \cup Range(libs[k].versions) :
                              Count(libs[k].versions, v) = Count(own, v)
                       /\ libs[k].author = first.author
                       /\ libs[k].website = first.website
                       /\ libs[k].repository = NewPackage(first).repository

\* Two Packages from three entries: the second entry is nameless and the
\* third repeats the first one's name with other descriptive fields.
C12_Witness ==
    /\ pc = "batch"
    /\ Len(RawLibraries) = 3
    /\ RawLibraries[2].name = <<>>
    /\ RawLibraries[3].name = RawLibraries[1].name
    /\ RawLibraries[3].author # RawLibraries[1].author
    /\ Len(libs) = 1
    /\ Len(libs[1].versions) = 2

\* C17 as stated: every versions list is strictly descending by the
\* comparator, newest first.
C17_StrictlyDescending ==
    pc = "batch" =>
        \A k \in 1..Len(libs) : \A i, j \in 1..Len(libs[k].versions) :
            i < j => compareSemver(libs[k].versions[i].version, libs[k].versions[j].version) < 0

\* C17 amended: in every versions list no record comes after one the
\* comparator ranks older (strictly descending where the comparator tells
\* the versions apart), and the records it ranks as equal keep the order of
\* their raw entries.
C17_DescendingStable ==
    pc = "batch" =>
        \A k \in 1..Len(libs) :
            LET vs  == libs[k].versions
                own == RecordsOf(RawLibraries, libs[k].name)
            IN  /\ \A i, j \in 1..Len(vs) :
                       i < j => compareSemver(vs[i].version, vs[j].version) <= 0
                /\ \A w \in Range(own) :
                       SelectSeq(vs, LAMBDA v : compareSemver(v.version, w.version) = 0)
                           = SelectSeq(own, LAMBDA v : compareSemver(v.version, w.version) = 0)

\* A Package of three versions whose raw order was "1", "2.0", "1.0.0": the
\* newest has moved to the front and the two equal ones kept their order.
C17_Witness ==
    /\ pc = "batch"
    /\ Len(libs) = 1
    /\ Len(RawLibraries) = 3
    /\ Len(libs[1].versions) = 3
    /\ [i \in 1..3 |-> RawLibraries[i].version] = << <<"1">>, <<"2",".","0">>, Version("1","0","0") >>
    /\ [i \in 1..3 |-> libs[1].versions[i].version] = << <<"2",".","0">>, <<"1">>, Version("1","0","0") >>

\* The triple a version string of VersionCases stands for.
TripleOf(v) == (CHOOSE c \in VersionCases : c.s = v).t

\* Whether triple x is numerically greater than triple y.
TripleGreater(x, y) ==
    \/ x[1] > y[1]
    \/ x[1] = y[1] /\ x[2] > y[2]
    \/ x[1] = y[1] /\ x[2] = y[2] /\ x[3] > y[3]

GivenUrl == IF IsSome(RawLibraries[1].website) THEN RawLibraries[1].website
            ELSE RawLibraries[1].repository

\* C14: the Package created from a URL of a supported shape carries the
\* identity of the repository the URL names, whatever the shape and the
\* trailing segments, with .git stripped; the Package created from an
\* unrelated URL or from no URL carries no identity.
C14_ParseGitHubUrl ==
    (pc = "batch" /\ Len(libs) = 1) =>
        libs[1].repoInfo = (CHOOSE c \in UrlCases : c.url = GivenUrl).id

\* The supported shapes alone: every one of them yields the identity of
\* the repository it names.
C14_SupportedShapes ==
    (pc = "batch" /\ Len(libs) = 1) =>
        LET c == CHOOSE d \in UrlCases : d.url = GivenUrl
        IN  IsSome(c.id) => libs[1].repoInfo = c.id

\* The enrichment fields of a Package.
EnrichmentFields(lib) ==
    <<lib.stars, lib.isArchived, lib.pushedAt, lib.openIssues, lib.topics,
      lib.license, lib.githubDescription>>

\* Whether every 2xx response in tr carried a body with all the fields the
\* enrichment reads.
BodiesComplete(tr) ==
    \A i \in 1..Len(tr) :
        tr[i].kind = "ok" =>
            \A f \in DOMAIN tr[i].body : IsSome(tr[i].body[f])

\* C15: at every moment of the enrichment and after it, whatever responses
\* a Package's lookup has received (complete bodies, 404, rate limits,
\* other statuses, transport errors, timeouts, or no request at all), its
\* seven enrichment fields are all absent or all populated; they are all
\* populated after a successful fetch and all absent after a failed one.
C15_AllOrNothing ==
    \A k \in 1..Len(libs) :
        BodiesComplete(trace[k]) =>
            LET f == EnrichmentFields(libs[k])
                last == trace[k][Len(trace[k])]
            IN  /\ \/ \A i \in 1..Len(f) : f[i] = Undefined
                   \/ \A i \in 1..Len(f) : IsSome(f[i])
                /\ (lk[k].st = "fulfilled" /\ trace[k] # <<>> /\ last.kind = "ok")
                       => \A i \in 1..Len(f) : IsSome(f[i])

\* The same with the 404 responses left out: every other outcome leaves the
\* fields all absent or all populated.
C15_ExceptNotFound ==
    \A k \in 1..Len(libs) :
        (BodiesComplete(trace[k]) /\ \A i \in 1..Len(trace[k]) : trace[k][i].kind # "notfound") =>
            LET f == EnrichmentFields(libs[k])
            IN  \/ \A i \in 1..Len(f) : f[i] = Undefined
                \/ \A i \in 1..Len(f) : IsSome(f[i])

\* Whether Package k has a repository and a finished lookup that yielded no
\* data.
NeverEnriched(k) ==
    /\ lk[k].st = "fulfilled"
    /\ libs[k].repository # <<>>
    /\ libs[k].stars = Undefined
    /\ libs[k].isArchived = Undefined

\* C16: a Package with a repository whose lookup yielded no data is in
\* every written list, none of its enrichment fields is set, and no Package
\* with a positive star count comes after it.
C16_NeverEnrichedRetained ==
    \A ls \in WrittenLists : \A k \in 1..Len(libs) :
        NeverEnriched(k) =>
            /\ \A i \in 1..Len(EnrichmentFields(libs[k])) : EnrichmentFields(libs[k])[i] = Undefined
            /\ \E j \in 1..Len(ls) :
                  /\ ls[j] = libs[k]
                  /\ \A i \in (j + 1)..Len(ls) : ls[i].stars \in {Undefined, Some(0)}

\* The file is written with a starred Package ahead of one whose lookup
\* yielded no data.
C16_Witness ==
    /\ pc = "done"
    /\ \E k \in 1..Len(libs) : \E i, j \in 1..Len(file[1].libraries) :
          /\ NeverEnriched(k)
          /\ file[1].libraries[j] = libs[k]
          /\ i < j
          /\ file[1].libraries[i].stars = Some(1)

\* C18: the sleep after failed attempt number i lasts 1000 * 2^i ms clamped
\* to 10000 ms; the sleeps never shorten from one attempt to the next and
\* none exceeds 10000 ms, whatever maxRetries is.
C18_BackoffDelays ==
    /\ \A i \in 1..Len(delay) :
          /\ delay[i] = Min({1000 * 2^i, 10000})
          /\ delay[i] <= 10000
    /\ \A i \in 1..(Len(delay) - 1) : delay[i] <= delay[i + 1]

\* Four failed attempts slept 2000, 4000, 8000 and, clamped, 10000 ms.
C18_Witness ==
    /\ pc = "retrySleep"
    /\ attempt = 4
    /\ delay = <<2000, 4000, 8000, 10000>>

\* The RepoIdentity of the entry Package k was created from: that of its
\* website if it has one, else that of its repository URL.
IdentityOf(k) ==
    LET first == RawLibraries[FirstAt(RawLibraries, libs[k].name)]
    IN  IF IsSome(parseGitHubUrl(first.website)) THEN parseGitHubUrl(first.website)
        ELSE parseGitHubUrl(first.repository)

\* C19: a Package whose entry gave no RepoIdentity never has a request in
\* flight or a rate-limit sleep, keeps every enrichment field absent and has
\* no repository; a Package has a repository exactly when its entry gave a
\* RepoIdentity, and it is the URL of that repository.
C19_NoIdentityNoRequest ==
    \A k \in 1..Len(libs) :
        /\ libs[k].repository # <<>> <=> IsSome(IdentityOf(k))
        /\ IsSome(IdentityOf(k)) =>
              libs[k].repository = RepositoryUrl(IdentityOf(k)[1].owner, IdentityOf(k)[1].repo)
        /\ ~IsSome(IdentityOf(k)) =>
              /\ lk[k] \in {[st |-> "idle", retryCount |-> 0], [st |-> "fulfilled", retryCount |-> 0]}
              /\ \A i \in 1..Len(EnrichmentFields(libs[k])) : EnrichmentFields(libs[k])[i] = Undefined

\* The file is written in a run with a Package skipped for want of a
\* RepoIdentity, its entry naming a repository elsewhere, and a Package
\* whose website and repository URL name different GitHub repositories.
C19_Witness ==
    /\ pc = "done"
    /\ \E k \in 1..Len(libs) :
          /\ ~IsSome(IdentityOf(k))
          /\ RawLibraries[FirstAt(RawLibraries, libs[k].name)].repository # <<>>
          /\ lk[k].st = "fulfilled"
    /\ \E k \in 1..Len(libs) :
          /\ libs[k].repository = RepositoryUrl(<<"w">>, <<"f","o","o">>)
          /\ IsSome(parseGitHubUrl(RawLibraries[FirstAt(RawLibraries, libs[k].name)].repository))

\* A Package carries its RepoIdentity until its processor has returned and
\* never after; every Package of a written list is one of the enriched
\* Packages and carries none.
C20_Discarded ==
    /\ \A k \in 1..Len(libs) :
          libs[k].has_repoInfo <=> lk[k].st # "fulfilled"
    /\ \A ls \in WrittenLists : \A j \in 1..Len(ls) :
          /\ ~ls[j].has_repoInfo
          /\ ls[j].repoInfo = Undefined
          /\ \E k \in 1..Len(libs) : libs[k] = ls[j]

\* A step changes a Package only by returning from its processor, which
\* changes it; once the processor has returned the Package stays as it is.
C20_MutatedOnce ==
    \A k \in 1..Len(libs) :
        /\ libs'[k] # libs[k] <=> (lk[k].st # "fulfilled" /\ lk'[k].st = "fulfilled")
        /\ lk[k].st = "fulfilled" => lk'[k].st = "fulfilled"

\* C20: every Package is changed by the enrichment exactly once, when its
\* processor returns (fetched, failed, not found or skipped), and loses its
\* RepoIdentity then; no Package of a written list carries a RepoIdentity;
\* no Package changes after its processor has returned.
C20_EnrichedOnceThenReadOnly == [](C20_Discarded) /\ [][C20_MutatedOnce]_vars

\* The file is written with a Package whose lookup returned data; another
\* Package of the run was skipped.
C20_Witness ==
    /\ pc = "done"
    /\ \E j \in 1..Len(file[1].libraries) : file[1].libraries[j].stars = Some(1)
    /\ \E k \in 1..Len(libs) : libs[k].repository = <<>> /\ lk[k].st = "fulfilled"

\* The results pushed so far are the items of the finished batches in input
\* order, each with its processor returned; once processInBatches has
\* returned there is one result per item.
C21_ResultsInOrder ==
    /\ results = [j \in 1..Len(results) |-> j]
    /\ Len(results) = Min({batchStart, Len(libs)})
    /\ \A j \in 1..Len(results) : lk[j].st = "fulfilled"
    /\ pc \in {"write", "done"} => Len(results) = Len(libs)

\* A step calls the processor on an item only when the loop starts the
\* item's batch, and never on an item it was called on before.
C21_CalledOnce ==
    \A k \in 1..Len(lk) :
        /\ (lk[k].st = "idle" /\ lk'[k].st # "idle") =>
              /\ pc = "batch" /\ pc' = "await"
              /\ BatchOf(k) * CONCURRENT_REQUESTS = batchStart
        /\ lk[k].st # "idle" => lk'[k].st # "idle"
        /\ lk[k].st = "fulfilled" => lk'[k].st = "fulfilled"

\* C21: processInBatches calls the processor exactly once on every item and
\* returns one result per item in input order, for every order in which the
\* calls of a batch complete, for 0, 5 and 6 items.
C21_OncePerItemInOrder == [](C21_ResultsInOrder) /\ [][C21_CalledOnce]_vars

\* processInBatches has returned six results: a full batch and a batch of one.
C21_Witness ==
    /\ pc = "write"
    /\ Len(libs) = 6
    /\ results = <<1, 2, 3, 4, 5, 6>>
    /\ batchStart = 2 * CONCURRENT_REQUESTS

\* processInBatches has returned the empty list for no item.
C21_WitnessEmpty ==
    /\ pc = "write"
    /\ libs = <<>>
    /\ results = <<>>

====
